---- MODULE Spec2Model ----
(***************************************************************************)
(* A model of the VISCA-over-IP client of src/camera.go (the revision of   *)
(* lines 1-289: Config, Stats, Camera, NewCameraWithConfig, incSeqNum,     *)
(* MakeCommand, SendCommand, receiveCommandResponse, ResetSequenceNumber). *)
(*                                                                         *)
(* Representation.                                                         *)
(*  - A byte is a number 0..255, a []byte a sequence of bytes.             *)
(*  - A Go string is the sequence of its ASCII codes ("06 04" is           *)
(*    <<48, 54, 32, 48, 52>>).                                             *)
(*  - A sequence number (a Go int holding a value around 2^32, which is    *)
(*    more than the model checker's integers hold) is a pair <<hi, lo>>    *)
(*    that stands for hi * 65536 + lo, with 0 <= lo < 65536 and hi >= 0.   *)
(*  - Durations are whole milliseconds.                                    *)
(***************************************************************************)
EXTENDS Integers, Sequences, FiniteSets, TLC

\* ---------------------------------------------------------------- bounds

\* the caller issues at most MaxCalls SendCommand calls on a session
MaxCalls == 2

\* Config.MaxRetries is drawn from 0..MaxRetriesBound
MaxRetriesBound == 3

\* MakeCommand is applied to every string of at most MaxHexLen characters
MaxHexLen == 5

\* Config.MaxRetries of the session whose backoff delays are followed
BackoffRetries == 6

\* incSeqNum is applied MaxIncs times in a row
MaxIncs == 3

\* ------------------------------------------------------ program constants

StatusCodeACK == 4

StatusCodeCompletion == 5

MessageBufferSize == 24

InitialBackoff == 5

MaxBackoff == 50

\* "8101"
CommandPrefix == <<56, 49, 48, 49>>

\* "FF"
CommandSuffix == <<70, 70>>

\* "0100"
PayloadTypeCommand == <<48, 49, 48, 48>>

\* math.MaxUint32 = 65535 * 65536 + 65535
SequenceNumMax == <<65535, 65535>>

\* ------------------------------------------------- Go int sequence numbers

\* n + 1
Add1(n) == IF n[2] = 65535 THEN <<n[1] + 1, 0>> ELSE <<n[1], n[2] + 1>>

\* a < b
Less(a, b) == a[1] < b[1] \/ (a[1] = b[1] /\ a[2] < b[2])

\* an increment by two
incSeqNum_ByTwo(cur) == Add1(Add1(cur))

\* the increment without the wrap to 0
incSeqNum_NoWrap(cur) == Add1(cur)

\* c.seqNum += 1; if c.seqNum > SequenceNumMax { c.seqNum = 0 }; the new c.seqNum
incSeqNum(cur) ==
    LET n == Add1(cur)
    IN IF Less(SequenceNumMax, n) THEN <<0, 0>> ELSE n

\* ------------------------------------------------------------ Frame codec

Min(a, b) == IF a < b THEN a ELSE b

\* strings.ReplaceAll(s, " ", "")
RemoveSpaces(s) == SelectSeq(s, LAMBDA c : c # 32)

\* the lowercase hex digit character of d in 0..15, as %x prints it
HexChar(d) == IF d < 10 THEN 48 + d ELSE 87 + d

RECURSIVE HexDigits(_)
\* the hex digits of n >= 0, most significant first, no padding
HexDigits(n) == IF n < 16 THEN <<HexChar(n)>> ELSE HexDigits(n \div 16) \o <<HexChar(n % 16)>>

RECURSIVE PadLeft(_, _)
\* zero padding to a minimum width (a longer string is left as it is)
PadLeft(s, w) == IF Len(s) >= w THEN s ELSE PadLeft(<<48>> \o s, w)

\* fmt.Sprintf("%04x", n)
Sprintf04x(n) == PadLeft(HexDigits(n), 4)

\* fmt.Sprintf("%08x", n) of a sequence number <<hi, lo>>
Sprintf08x(n) ==
    PadLeft(IF n[1] = 0 THEN HexDigits(n[2])
            ELSE HexDigits(n[1]) \o PadLeft(HexDigits(n[2]), 4), 8)

\* encoding/hex fromHexChar: the value of a hex digit character, -1 for any other
FromHexChar(c) ==
    IF c >= 48 /\ c <= 57 THEN c - 48
    ELSE IF c >= 97 /\ c <= 102 THEN c - 87
    ELSE IF c >= 65 /\ c <= 70 THEN c - 55
    ELSE -1

\* hex.DecodeString: the bytes, or an error for an odd length or a non-hex character
DecodeString(s) ==
    IF Len(s) % 2 # 0 \/ \E i \in 1..Len(s) : FromHexChar(s[i]) = -1
    THEN [bytes |-> <<>>, err |-> "hex"]
    ELSE [bytes |-> [i \in 1..(Len(s) \div 2) |->
                        16 * FromHexChar(s[2 * i - 1]) + FromHexChar(s[2 * i])],
          err |-> "nil"]

\* MakeCommand with the payload length taken from the command body alone
MakeCommand_BodyLength(commandHex, seqNum) ==
    LET cleaned == RemoveSpaces(commandHex)
        payload == CommandPrefix \o cleaned \o CommandSuffix
        payloadLength == Sprintf04x(Len(cleaned) \div 2)
        messageStr == PayloadTypeCommand \o payloadLength \o Sprintf08x(seqNum) \o payload
        dec == DecodeString(messageStr)
    IN IF Len(cleaned) % 2 # 0 THEN [message |-> <<>>, err |-> "EvenLength"]
       ELSE IF dec.err # "nil" THEN [message |-> <<>>, err |-> "InvalidHex"]
       ELSE [message |-> dec.bytes, err |-> "nil"]

\* MakeCommand: the message and the error ("nil" for none)
MakeCommand(commandHex, seqNum) ==
    LET cleaned == RemoveSpaces(commandHex)
        payload == CommandPrefix \o cleaned \o CommandSuffix
        payloadLength == Sprintf04x(Len(payload) \div 2)
        seqNumStr == Sprintf08x(seqNum)
        messageStr == PayloadTypeCommand \o payloadLength \o seqNumStr \o payload
        dec == DecodeString(messageStr)
    IN IF Len(cleaned) % 2 # 0 THEN [message |-> <<>>, err |-> "EvenLength"]
       ELSE IF dec.err # "nil" THEN [message |-> <<>>, err |-> "InvalidHex"]
       ELSE [message |-> dec.bytes, err |-> "nil"]

\* ------------------------------------------------------------- transport

\* binary.BigEndian.PutUint32
PutUint32(n) == <<n[1] \div 256, n[1] % 256, n[2] \div 256, n[2] % 256>>

\* binary.BigEndian.Uint32
Uint32(b) == <<b[1] * 256 + b[2], b[3] * 256 + b[4]>>

\* the response the device model of the tests builds: 01 01 | 00 04 | seq | 90 status 01 FF
makeResponse(seqNum, statusCode) ==
    <<1, 1, 0, 4>> \o PutUint32(seqNum) \o <<144, statusCode, 1, 255>>

\* the reset response of the tests: 01 11 | 00 01 | 00 00 00 01 | 01
makeResetResponse == <<1, 17, 0, 1, 0, 0, 0, 1, 1>>

\* a datagram with the 8-byte header receiveCommandResponse parses, and any payload
ResponseFrame(seqNum, payload) ==
    <<1, 1, 0, Len(payload)>> \o PutUint32(seqNum) \o payload

\* n - 1, for n > 0
Sub1(n) == IF n[2] = 0 THEN <<n[1] - 1, 65535>> ELSE <<n[1], n[2] - 1>>

\* the sequence number issued before seq, and the one issued after it
PrevSeq(seq) == IF seq = <<0, 0>> THEN SequenceNumMax ELSE Sub1(seq)

NextSeq(seq) == IF seq = SequenceNumMax THEN <<0, 0>> ELSE Add1(seq)

\* the sequence numbers a datagram may carry while seq is awaited: the one of the
\* command before, seq, and the one of the command after
NearSeqs(seq) == {PrevSeq(seq), seq, NextSeq(seq)}

\* status bytes the tests put in the second payload byte: 0x41 ACK, 0x51 Completion,
\* 0x60 syntax error, 0x61 command buffer full
TestStatusBytes == {65, 81, 96, 97}

\* payloads whose fourth byte (index 3) is 0x04, 0x05, and a three-byte payload
OtherPayloads == {<<144, 0, 0, 4>>, <<144, 0, 0, 5>>, <<144, 65, 255>>}

\* the datagrams the transport may deliver while seq is awaited
Datagrams(seq) ==
    {makeResponse(s, c) : s \in NearSeqs(seq), c \in TestStatusBytes}
    \cup {ResponseFrame(s, p) : s \in NearSeqs(seq), p \in OtherPayloads}
    \cup {makeResetResponse}

\* what c.Conn.SetReadDeadline and c.Conn.Read(res) give: a datagram cut to the
\* buffer with a nil error, or no byte and an error (the deadline, a closed
\* connection); "setDeadline" stands for a failed SetReadDeadline, before any read
ReadOutcomes(seq) ==
    {[n |-> Min(Len(d), MessageBufferSize), err |-> "nil",
      data |-> SubSeq(d, 1, Min(Len(d), MessageBufferSize))] : d \in Datagrams(seq)}
    \cup {[n |-> 0, err |-> e, data |-> <<>>] : e \in {"timeout", "closed", "setDeadline"}}

\* what c.Conn.SetWriteDeadline and c.Conn.Write give
WriteOutcomes == {"ok", "timeout", "closed", "setDeadline"}

NoRead == [n |-> 0, err |-> "none", data |-> <<>>]

\* --------------------------------------------------------- returned errors

NoResult == [kind |-> "none", payload |-> <<>>, statusCode |-> 0]

Nil == [kind |-> "nil", payload |-> <<>>, statusCode |-> 0]

Err(k) == [kind |-> k, payload |-> <<>>, statusCode |-> 0]

Continue == [kind |-> "continue", payload |-> <<>>, statusCode |-> 0]

\* the commands a caller passes to SendCommand: "06 04", "0604", "",
\* "06 4", "0", "0 6 4", "0g"
CommandInputs ==
    {<<48, 54, 32, 48, 52>>, <<48, 54, 48, 52>>, <<>>,
     <<48, 54, 32, 52>>, <<48>>, <<48, 32, 54, 32, 52>>, <<48, 103>>}

\* "00 01", the socket-clear command of NewCameraWithConfig
SocketClear == <<48, 48, 32, 48, 49>>

\* the fixed reset command of ResetSequenceNumber
resetCmd == <<2, 0, 0, 1, 0, 0, 0, 1, 1>>

\* the characters of the strings MakeCommand is applied to: '0' '4' '6' 'F' ' '
HexAlphabet == {48, 52, 54, 70, 32}

HexInputs == UNION {[1..k -> HexAlphabet] : k \in 0..MaxHexLen}

\* the sequence numbers MakeCommand is applied to: 0, 1234, 0x946008B6, 2^32 - 1
SeqInputs == {<<0, 0>>, <<0, 1234>>, <<37984, 2230>>, SequenceNumMax}

\* ------------------------------------------------------------------ state

VARIABLES
    seqNum,      \* Camera.seqNum
    stats,       \* Camera.stats
    maxRetries,  \* Camera.config.MaxRetries
    pc,          \* where the caller is: "new", "idle", "write", "read",
                 \* "resetWrite", "resetRead", "dead" (no session was returned)
    creating,    \* TRUE inside NewCameraWithConfig
    callSeq,     \* SendCommand's local seqNum
    message,     \* SendCommand's local message
    count,       \* SendCommand's loop counter
    backoff,     \* SendCommand's local backoff, in ms
    result,      \* what the last call returned (NoResult while a call runs)
    sends,       \* number of c.Conn.Write calls of the running SendCommand
    stats0,      \* c.stats when the running SendCommand was called
    lastRead,    \* outcome of the last c.Conn.Read (NoRead when a caller's call starts)
    lastWrite,   \* outcome of the last c.Conn.Write of the running call
    writeTimeouts, \* number of writes of the running SendCommand that timed out
    readTimeouts,  \* number of reads of the running SendCommand that timed out
    statsOut,    \* the string the last Stats() returned
    lastSent,    \* the bytes of the last c.Conn.Write
    sleeps,      \* the time.Sleep durations of the running SendCommand
    calls,       \* number of SendCommand calls of the caller so far
    mkIn,        \* the last MakeCommand call: commandHex
    mkSeq,       \*                            seqNum
    mkOut        \*                            what it returned

vars == <<seqNum, stats, maxRetries, pc, creating, callSeq, message, count, backoff,
          result, sends, stats0, lastRead, lastSent, sleeps, calls, mkIn, mkSeq, mkOut,
          lastWrite, writeTimeouts, readTimeouts, statsOut>>

\* the records of the writes and reads of the running call
ioHist == <<lastWrite, writeTimeouts, readTimeouts>>

NoStats == <<>>

NotCalled == [message |-> <<>>, err |-> "none"]

\* Camera{Conn: conn, seqNum: 0, config: cfg, stats: Stats{}}, before any call
Init ==
    /\ seqNum = <<0, 0>>
    /\ stats = [missedResponses |-> 0, timeouts |-> 0]
    /\ maxRetries = 0
    /\ pc = "new"
    /\ creating = FALSE
    /\ callSeq = <<0, 0>>
    /\ message = <<>>
    /\ count = 0
    /\ backoff = 0
    /\ result = NoResult
    /\ sends = 0
    /\ stats0 = [missedResponses |-> 0, timeouts |-> 0]
    /\ lastRead = NoRead
    /\ lastSent = <<>>
    /\ sleeps = <<>>
    /\ calls = 0
    /\ mkIn = <<>>
    /\ mkSeq = <<0, 0>>
    /\ mkOut = NotCalled
    /\ lastWrite = "none"
    /\ writeTimeouts = 0
    /\ readTimeouts = 0
    /\ statsOut = NoStats

\* ---------------------------------------------------------------- actions

\* NewCameraWithConfig handing out its camera whatever its two steps returned
Return_CameraAnyway(r) ==
    /\ result' = r
    /\ pc' = "idle"
    /\ creating' = FALSE

\* a call returns r; NewCameraWithConfig returns Camera{} and the error when one of
\* its two steps fails, and the camera when both succeed
Return(r) ==
    /\ result' = r
    /\ pc' = IF creating /\ r.kind # "nil" THEN "dead" ELSE "idle"
    /\ creating' = FALSE

\* the loop head without the count of the give-up in stats.timeouts
LoopHead_GiveUpNotCounted(c, st) ==
    /\ count' = c
    /\ stats' = st
    /\ IF c > maxRetries
       THEN Return(Err("NotResponsive"))
       ELSE /\ pc' = "write"
            /\ result' = NoResult
            /\ UNCHANGED creating

\* the head of SendCommand's loop with count = c and c.stats = st: give up, or go on
\* to SetWriteDeadline and Write
LoopHead(c, st) ==
    /\ count' = c
    /\ IF c > maxRetries
       THEN /\ stats' = [st EXCEPT !.timeouts = @ + 1]
            /\ Return(Err("NotResponsive"))
       ELSE /\ stats' = st
            /\ pc' = "write"
            /\ result' = NoResult
            /\ UNCHANGED creating

\* the retry with the doubling of backoff left uncapped
Retry_NoCap(st) ==
    /\ sleeps' = Append(sleeps, backoff)
    /\ backoff' = backoff * 2
    /\ LoopHead(count + 1, st)

\* time.Sleep(backoff); backoff = min(backoff * 2, MaxBackoff); continue
Retry(st) ==
    /\ sleeps' = Append(sleeps, backoff)
    /\ backoff' = Min(backoff * 2, MaxBackoff)
    /\ LoopHead(count + 1, st)

\* SendCommand without the return on MakeCommand's error
BeginSendCommand_ErrorIgnored(commandHex, cur) ==
    LET s == incSeqNum(cur)
        mk == MakeCommand(commandHex, s)
    IN /\ seqNum' = s
       /\ callSeq' = s
       /\ mkIn' = commandHex
       /\ mkSeq' = s
       /\ mkOut' = mk
       /\ message' = mk.message
       /\ sends' = 0
       /\ stats0' = stats
       /\ lastWrite' = "none"
       /\ writeTimeouts' = 0
       /\ readTimeouts' = 0
       /\ sleeps' = <<>>
       /\ backoff' = InitialBackoff
       /\ LoopHead(1, stats)

\* SendCommand from its first line to its first blocking call, with c.seqNum = cur
BeginSendCommand(commandHex, cur) ==
    LET s == incSeqNum(cur)
        mk == MakeCommand(commandHex, s)
    IN /\ seqNum' = s
       /\ callSeq' = s
       /\ mkIn' = commandHex
       /\ mkSeq' = s
       /\ mkOut' = mk
       /\ message' = mk.message
       /\ sends' = 0
       /\ stats0' = stats
       /\ lastWrite' = "none"
       /\ writeTimeouts' = 0
       /\ readTimeouts' = 0
       /\ sleeps' = <<>>
       /\ IF mk.err # "nil"
          THEN /\ Return(Err(mk.err))
               /\ count' = 0
               /\ backoff' = 0
               /\ UNCHANGED stats
          ELSE /\ backoff' = InitialBackoff
               /\ LoopHead(1, stats)

\* NewCameraWithConfig(conn, cfg) up to the write of the reset command
NewCameraWithConfig ==
    /\ pc = "new"
    /\ \E r \in 0..MaxRetriesBound : maxRetries' = r
    /\ seqNum' = <<0, 0>>
    /\ stats' = [missedResponses |-> 0, timeouts |-> 0]
    /\ creating' = TRUE
    /\ pc' = "resetWrite"
    /\ result' = NoResult
    /\ lastRead' = NoRead
    /\ UNCHANGED <<callSeq, message, count, backoff, sends, stats0, lastSent, sleeps,
                   calls, mkIn, mkSeq, mkOut, ioHist, statsOut>>

\* a ResetSequenceNumber that starts by clearing c.stats
ResetSequenceNumber_ClearsStats ==
    /\ pc = "idle"
    /\ pc' = "resetWrite"
    /\ stats' = [missedResponses |-> 0, timeouts |-> 0]
    /\ result' = NoResult
    /\ lastRead' = NoRead
    /\ callSeq' = <<0, 0>>
    /\ message' = <<>>
    /\ count' = 0
    /\ backoff' = 0
    /\ sends' = 0
    /\ stats0' = stats'
    /\ sleeps' = <<>>
    /\ mkIn' = <<>>
    /\ mkSeq' = <<0, 0>>
    /\ mkOut' = NotCalled
    /\ lastWrite' = "none"
    /\ writeTimeouts' = 0
    /\ readTimeouts' = 0
    /\ statsOut' = NoStats
    /\ UNCHANGED <<seqNum, maxRetries, creating, lastSent, calls>>

\* a caller's ResetSequenceNumber() up to the write of the reset command (the locals
\* and the records of the SendCommand that returned before are dropped)
ResetSequenceNumber ==
    /\ pc = "idle"
    /\ pc' = "resetWrite"
    /\ result' = NoResult
    /\ lastRead' = NoRead
    /\ callSeq' = <<0, 0>>
    /\ message' = <<>>
    /\ count' = 0
    /\ backoff' = 0
    /\ sends' = 0
    /\ stats0' = stats
    /\ sleeps' = <<>>
    /\ mkIn' = <<>>
    /\ mkSeq' = <<0, 0>>
    /\ mkOut' = NotCalled
    /\ lastWrite' = "none"
    /\ writeTimeouts' = 0
    /\ readTimeouts' = 0
    /\ statsOut' = NoStats
    /\ UNCHANGED <<seqNum, stats, maxRetries, creating, lastSent, calls>>

\* ResetSequenceNumber: SetWriteDeadline and Write(resetCmd)
ResetWrite ==
    /\ pc = "resetWrite"
    /\ \E o \in WriteOutcomes :
         /\ lastWrite' = o
         /\ IF o = "setDeadline"
            THEN Return(Err("SetDeadline")) /\ UNCHANGED lastSent
            ELSE /\ lastSent' = resetCmd
                 /\ IF o # "ok"
                    THEN Return(Err("ResetSendFailed"))
                    ELSE pc' = "resetRead" /\ UNCHANGED <<result, creating>>
    /\ UNCHANGED <<seqNum, stats, maxRetries, callSeq, message, count, backoff, sends,
                   stats0, lastRead, sleeps, calls, mkIn, mkSeq, mkOut, writeTimeouts,
                   readTimeouts, statsOut>>

\* the check of the reset response without the test of the acknowledge byte
resetResponse_AckNotChecked(o) ==
    IF o.err = "setDeadline" THEN Err("SetDeadline")
    ELSE IF o.n < 9 THEN Err("ResetTooShort")
    ELSE IF o.err # "nil" THEN Err("ResetReadFailed")
    ELSE Nil

\* what ResetSequenceNumber returns after c.Conn.Read gave o
resetResponse(o) ==
    IF o.err = "setDeadline" THEN Err("SetDeadline")
    ELSE IF o.n < 9 THEN Err("ResetTooShort")
    ELSE IF o.err # "nil" THEN Err("ResetReadFailed")
    ELSE IF o.data[9] # 1 THEN Err("ResetInvalid")
    ELSE Nil

\* ResetSequenceNumber: SetReadDeadline, Read and the check of the response; inside
\* NewCameraWithConfig a success goes on to SendCommand("00 01")
ResetRead ==
    /\ pc = "resetRead"
    /\ \E o \in ReadOutcomes(seqNum) :
         LET r == resetResponse(o)
         IN /\ lastRead' = o
            /\ IF r.kind # "nil"
               THEN /\ Return(r)
                    /\ UNCHANGED <<seqNum, stats, callSeq, message, count, backoff, sends,
                                   stats0, sleeps, mkIn, mkSeq, mkOut, ioHist>>
               ELSE IF creating
               THEN BeginSendCommand(SocketClear, <<0, 1>>)
               ELSE /\ seqNum' = <<0, 1>>
                    /\ Return(Nil)
                    /\ UNCHANGED <<stats, callSeq, message, count, backoff, sends,
                                   stats0, sleeps, mkIn, mkSeq, mkOut, ioHist>>
    /\ UNCHANGED <<maxRetries, lastSent, calls, statsOut>>

\* a caller's SendCommand(commandHex) up to its first blocking call
SendCommand ==
    /\ pc = "idle"
    /\ calls < MaxCalls
    /\ calls' = calls + 1
    /\ \E commandHex \in CommandInputs : BeginSendCommand(commandHex, seqNum)
    /\ lastRead' = NoRead
    /\ statsOut' = NoStats
    /\ UNCHANGED <<maxRetries, lastSent>>

\* SendCommand: SetWriteDeadline and Write(message)
Write ==
    /\ pc = "write"
    /\ \E o \in WriteOutcomes :
         /\ lastWrite' = o
         /\ writeTimeouts' = IF o = "timeout" THEN writeTimeouts + 1 ELSE writeTimeouts
         /\ IF o = "setDeadline"
            THEN /\ Return(Err("SetDeadline"))
                 /\ UNCHANGED <<stats, count, backoff, sends, lastSent, sleeps>>
            ELSE /\ sends' = sends + 1
                 /\ lastSent' = message
                 /\ IF o = "ok"
                    THEN /\ pc' = "read"
                         /\ UNCHANGED <<stats, count, backoff, sleeps, result, creating>>
                    ELSE IF o = "timeout"
                    THEN Retry([stats EXCEPT !.timeouts = @ + 1])
                    ELSE /\ Return(Err("WriteFailed"))
                         /\ UNCHANGED <<stats, count, backoff, sleeps>>
    /\ UNCHANGED <<seqNum, maxRetries, callSeq, message, stats0, lastRead, calls,
                   mkIn, mkSeq, mkOut, readTimeouts, statsOut>>

\* the comparison with <= in the place of <
IsLate_OrEqual(resSeqNum, seq) == ~Less(seq, resSeqNum)

\* resSeqNum is older than the awaited sequence number: int(resSeqNum) < seqNum
IsLate(resSeqNum, seq) == Less(resSeqNum, seq)

\* the status code receiveCommandResponse reads: resPayload[3]
StatusCodeOf(resPayload) == resPayload[4]

\* receiveCommandResponse reading on after a response of less than twelve bytes
receiveCommandResponse_ShortSkipped(o, seq) ==
    IF o.err = "setDeadline" THEN Err("SetDeadline")
    ELSE IF o.n < 12 THEN Continue
    ELSE IF o.err # "nil" THEN Err(o.err)
    ELSE LET resSeqNum == Uint32(SubSeq(o.data, 5, 8))
             resPayload == SubSeq(o.data, 9, o.n)
         IN IF IsLate(resSeqNum, seq) THEN Continue
            ELSE IF Len(resPayload) < 4 THEN Err("PayloadTooShort")
            ELSE IF StatusCodeOf(resPayload) = StatusCodeACK THEN Continue
            ELSE IF StatusCodeOf(resPayload) = StatusCodeCompletion THEN Nil
            ELSE [kind |-> "DeviceError", payload |-> resPayload,
                  statusCode |-> StatusCodeOf(resPayload)]

\* one turn of receiveCommandResponse's loop after Read gave o: Continue, or what the
\* function returns (Nil, or an error; "timeout" is os.ErrDeadlineExceeded)
receiveCommandResponse(o, seq) ==
    IF o.err = "setDeadline" THEN Err("SetDeadline")
    ELSE IF o.n < 12 THEN Err("ResponseTooShort")
    ELSE IF o.err # "nil" THEN Err(o.err)
    ELSE LET resSeqNum == Uint32(SubSeq(o.data, 5, 8))
             resPayload == SubSeq(o.data, 9, o.n)
         IN IF IsLate(resSeqNum, seq) THEN Continue
            ELSE IF Len(resPayload) < 4 THEN Err("PayloadTooShort")
            ELSE IF StatusCodeOf(resPayload) = StatusCodeACK THEN Continue
            ELSE IF StatusCodeOf(resPayload) = StatusCodeCompletion THEN Nil
            ELSE [kind |-> "DeviceError", payload |-> resPayload,
                  statusCode |-> StatusCodeOf(resPayload)]

\* SendCommand: one SetReadDeadline and Read of receiveCommandResponse, and what
\* SendCommand does with what receiveCommandResponse returns
Read ==
    /\ pc = "read"
    /\ \E o \in ReadOutcomes(callSeq) :
         LET r == receiveCommandResponse(o, callSeq)
         IN /\ lastRead' = o
            /\ readTimeouts' = IF o.err = "timeout" THEN readTimeouts + 1 ELSE readTimeouts
            /\ IF r.kind = "continue"
               THEN UNCHANGED <<pc, result, creating, stats, count, backoff, sleeps>>
               ELSE IF r.kind = "nil"
               THEN Return(Nil) /\ UNCHANGED <<stats, count, backoff, sleeps>>
               ELSE IF r.kind = "timeout"
               THEN Retry([stats EXCEPT !.missedResponses = @ + 1])
               ELSE Return(r) /\ UNCHANGED <<stats, count, backoff, sleeps>>
    /\ UNCHANGED <<seqNum, maxRetries, callSeq, message, sends, stats0, lastSent, calls,
                   mkIn, mkSeq, mkOut, lastWrite, writeTimeouts, statsOut>>

\* fmt.Sprintf("Missed Responses: %d, Timeouts: %d", missedResponses, timeouts)
StatsString(st) == <<"Missed Responses: ", st.missedResponses, ", Timeouts: ", st.timeouts>>

\* a caller's Stats() between two calls
Stats ==
    /\ pc = "idle"
    /\ statsOut' = StatsString(stats)
    /\ UNCHANGED <<seqNum, stats, maxRetries, pc, creating, callSeq, message, count,
                   backoff, result, sends, stats0, lastRead, lastSent, sleeps, calls,
                   mkIn, mkSeq, mkOut, ioHist>>

Next ==
    \/ NewCameraWithConfig
    \/ ResetSequenceNumber
    \/ ResetWrite
    \/ ResetRead
    \/ SendCommand
    \/ Write
    \/ Read
    \/ Stats

Spec == Init /\ [][Next]_vars

\* the caller and the reads and writes never stall: every blocking call returns
FairSpec == Spec /\ WF_vars(Next)

\* ------------------------------------------------- MakeCommand on its own

\* a caller about to apply MakeCommand to a string and a sequence number
CodecInit ==
    /\ seqNum = <<0, 0>>
    /\ stats = [missedResponses |-> 0, timeouts |-> 0]
    /\ maxRetries = 0
    /\ pc = "new"
    /\ creating = FALSE
    /\ callSeq = <<0, 0>>
    /\ message = <<>>
    /\ count = 0
    /\ backoff = 0
    /\ result = NoResult
    /\ sends = 0
    /\ stats0 = [missedResponses |-> 0, timeouts |-> 0]
    /\ lastRead = NoRead
    /\ lastSent = <<>>
    /\ sleeps = <<>>
    /\ calls = 0
    /\ mkIn \in HexInputs
    /\ mkSeq \in SeqInputs
    /\ mkOut = NotCalled
    /\ lastWrite = "none"
    /\ writeTimeouts = 0
    /\ readTimeouts = 0
    /\ statsOut = NoStats

\* MakeCommand(mkIn, mkSeq)
MakeCommandCall ==
    /\ mkOut = NotCalled
    /\ mkOut' = MakeCommand(mkIn, mkSeq)
    /\ UNCHANGED <<seqNum, stats, maxRetries, pc, creating, callSeq, message, count,
                   backoff, result, sends, stats0, lastRead, lastSent, sleeps, calls,
                   mkIn, mkSeq, ioHist, statsOut>>

CodecNext == MakeCommandCall

CodecSpec == CodecInit /\ [][CodecNext]_vars

\* ------------------------------------------- sessions that have been used

\* "06 04", the command of the tests
TestCommand == <<48, 54, 32, 48, 52>>

\* MaxRetries of NewCamera's configuration
DefaultMaxRetries == 5

\* a session between two calls whose last SendCommand(TestCommand), with sequence
\* number s, was answered by a Completion at the first attempt; MaxRetries is r
Established(s, r) ==
    /\ seqNum = s
    /\ stats = [missedResponses |-> 0, timeouts |-> 0]
    /\ maxRetries = r
    /\ pc = "idle"
    /\ creating = FALSE
    /\ callSeq = s
    /\ message = MakeCommand(TestCommand, s).message
    /\ count = 1
    /\ backoff = InitialBackoff
    /\ result = Nil
    /\ sends = 1
    /\ stats0 = [missedResponses |-> 0, timeouts |-> 0]
    /\ lastRead = [n |-> 12, err |-> "nil", data |-> ResponseFrame(s, <<144, 0, 0, 5>>)]
    /\ lastSent = MakeCommand(TestCommand, s).message
    /\ sleeps = <<>>
    /\ calls = 0
    /\ mkIn = TestCommand
    /\ mkSeq = s
    /\ mkOut = MakeCommand(TestCommand, s)
    /\ lastWrite = "ok"
    /\ writeTimeouts = 0
    /\ readTimeouts = 0
    /\ statsOut = NoStats

\* what a caller does with a camera it holds
SessionNext ==
    \/ ResetSequenceNumber
    \/ ResetWrite
    \/ ResetRead
    \/ SendCommand
    \/ Write
    \/ Read
    \/ Stats

\* a session with MaxRetries = BackoffRetries after its first command
BackoffInit == Established(<<0, 3>>, BackoffRetries)

BackoffSpec == BackoffInit /\ [][SessionNext]_vars

\* a session whose next command takes the last sequence number before the wrap, or
\* the first one after it
WrapInit == \E s \in {Sub1(SequenceNumMax), SequenceNumMax} : Established(s, MaxRetriesBound)

WrapSpec == WrapInit /\ [][SessionNext]_vars

\* --------------------------------------------------- incSeqNum on its own

\* the 16-bit halves of the sequence numbers incSeqNum is applied to
SeqHalves == {0, 1, 2, 3, 65532, 65533, 65534, 65535}

\* c.seqNum before the calls: values next to 0, to 2^16, to 2^32 - 1 and between
CounterSeeds == {<<h, l>> : h \in {0, 1, 65534, 65535}, l \in SeqHalves}

CounterInit == \E s \in CounterSeeds : Established(s, DefaultMaxRetries)

\* seqNum := c.incSeqNum(), the first statement of SendCommand
IncSeqNumCall ==
    /\ calls < MaxIncs
    /\ calls' = calls + 1
    /\ seqNum' = incSeqNum(seqNum)
    /\ callSeq' = seqNum'
    /\ UNCHANGED <<stats, maxRetries, pc, creating, message, count, backoff, result,
                   sends, stats0, lastRead, lastSent, sleeps, mkIn, mkSeq, mkOut,
                   ioHist, statsOut>>

CounterNext == IncSeqNumCall

CounterSpec == CounterInit /\ [][CounterNext]_vars

\* ----------------------------------------------------------------- claims

\* the sequence number in the header of a datagram that was read
HeaderSeq(o) == <<o.data[5] * 256 + o.data[6], o.data[7] * 256 + o.data[8]>>

\* o is a response as the tests build it for sequence number seq: twelve bytes,
\* 01 01 00 04 | seq | 90 status 01 FF
IsTestResponse(o, seq) ==
    /\ o.err = "nil"
    /\ o.n = 12
    /\ HeaderSeq(o) = seq
    /\ <<o.data[1], o.data[2], o.data[3], o.data[4]>> = <<1, 1, 0, 4>>
    /\ <<o.data[9], o.data[11], o.data[12]>> = <<144, 1, 255>>

\* the status of such a response: the high half of its second payload byte
TestStatus(o) == o.data[10] \div 16

\* a SendCommand has returned (a call of a caller, or the one of NewCameraWithConfig)
Returned == pc \in {"idle", "dead"}

\* C1: a read of SendCommand that hits its deadline does not fail the call:
\* missedResponses grows by exactly one and the same frame is about to be sent again,
\* unless the retry budget is exhausted ("device unresponsive").
C1_ReadTimeoutIsRetried ==
    [][(pc = "read" /\ lastRead'.err = "timeout")
        => /\ stats'.missedResponses = stats.missedResponses + 1
           /\ \/ pc' = "write" /\ message' = message /\ result' = NoResult
              \/ result'.kind = "NotResponsive"]_vars

\* C2: an ACK of the tests (status 0x4z in the second payload byte) for the current
\* sequence number neither ends the wait nor costs a retry: SendCommand has not
\* returned, has not resent, stats are as before, and the next response is read.
C2_TestAckKeepsWaiting ==
    [][(pc = "read" /\ IsTestResponse(lastRead', callSeq) /\ TestStatus(lastRead') = 4)
        => /\ pc' = "read"
           /\ result' = NoResult
           /\ stats' = stats
           /\ sends' = sends
           /\ count' = count]_vars

\* C3: a Completion of the tests (status 0x5z in the second payload byte) for the
\* current sequence number makes SendCommand return nil, with stats as the timeouts
\* before it left them.
C3_TestCompletionSucceeds ==
    [][(pc = "read" /\ IsTestResponse(lastRead', callSeq) /\ TestStatus(lastRead') = 5)
        => /\ result' = Nil
           /\ pc' = "idle"
           /\ stats' = stats]_vars

\* C4: a response of the tests for the current sequence number whose status is
\* neither ACK nor Completion (0x60, 0x61) ends SendCommand at once with an error
\* that carries the raw four payload bytes and the status (6 for 90 60 01 FF), no
\* further send, stats unchanged.
C4_TestErrorCarriesStatus ==
    [][(pc = "read" /\ IsTestResponse(lastRead', callSeq)
                    /\ TestStatus(lastRead') \notin {4, 5})
        => /\ result' = [kind |-> "DeviceError",
                         payload |-> SubSeq(lastRead'.data, 9, 12),
                         statusCode |-> TestStatus(lastRead')]
           /\ Returned'
           /\ sends' = sends
           /\ stats' = stats]_vars

\* o is a response (twelve bytes or more, read without error) with a sequence number
\* below seq
IsStaleResponse(o, seq) ==
    /\ o.err = "nil"
    /\ o.n >= 12
    /\ Less(HeaderSeq(o), seq)

\* o is a response (twelve bytes or more, read without error) with sequence number seq
IsCurrentResponse(o, seq) ==
    /\ o.err = "nil"
    /\ o.n >= 12
    /\ HeaderSeq(o) = seq

\* C5: while SendCommand awaits sequence number s, a response (twelve bytes or more)
\* with a smaller sequence number is discarded whatever its status byte: no return,
\* no resend, no change of stats, the next response is read; a response with
\* sequence number s is current, also after earlier sends of s were lost: the byte
\* the code reads as status decides (Completion returns nil, a status that is neither
\* ACK nor Completion returns the device error).
C5_StaleDiscarded ==
    [][/\ (pc = "read" /\ IsStaleResponse(lastRead', callSeq))
          => /\ pc' = "read"
             /\ result' = NoResult
             /\ stats' = stats
             /\ sends' = sends
             /\ lastSent' = lastSent
             /\ count' = count
             /\ sleeps' = sleeps
       /\ (pc = "read" /\ IsCurrentResponse(lastRead', callSeq))
          => IF lastRead'.data[12] = StatusCodeCompletion
             THEN result' = Nil /\ Returned'
             ELSE IF lastRead'.data[12] = StatusCodeACK
             THEN pc' = "read" /\ result' = NoResult
             ELSE result'.kind = "DeviceError" /\ Returned']_vars

\* C5, reached: in its second attempt (the first write timed out) SendCommand has
\* read a response of the sequence number before, whose status byte says Completion,
\* and still waits
C5_Witness ==
    /\ pc = "read"
    /\ count = 2
    /\ IsStaleResponse(lastRead, callSeq)
    /\ lastRead.data[12] = StatusCodeCompletion
    /\ result = NoResult

\* what the running (or last) SendCommand added to the two counters
AddedStats == (stats.timeouts - stats0.timeouts)
              + (stats.missedResponses - stats0.missedResponses)

\* C6: SendCommand returns "device unresponsive" only after exactly maxRetries + 1
\* sends of the frame, and never sends more often than that.
C6_BudgetIsRetriesPlusOne ==
    /\ sends <= maxRetries + 1
    /\ (Returned /\ result.kind = "NotResponsive") => sends = maxRetries + 1

C8_SendCommandReturns == (pc \in {"write", "read"}) ~> Returned

\* the bytes a string of hex digits and spaces stands for
HexBody(h) ==
    LET d == SelectSeq(h, LAMBDA c : c # 32)
        v(c) == IF c = 70 THEN 15 ELSE c - 48
    IN [i \in 1..(Len(d) \div 2) |-> 16 * v(d[2 * i - 1]) + v(d[2 * i])]

\* h holds an odd number of characters that are not spaces
OddDigits(h) == Len(SelectSeq(h, LAMBDA c : c # 32)) % 2 = 1

\* 01 00 | 3 + N in two bytes | seq in four bytes | 81 01 | body | FF
ExpectedFrame(body, seq) ==
    <<1, 0, (3 + Len(body)) \div 256, (3 + Len(body)) % 256,
      seq[1] \div 256, seq[1] % 256, seq[2] \div 256, seq[2] % 256, 129, 1>>
    \o body \o <<255>>

\* C9: for a body of N whole bytes given as hex digits (spaces ignored) and a
\* sequence number below 2^32, MakeCommand returns, without error, the 11 + N bytes
\* 01 00 | 3 + N | seq | 81 01 | body | FF; bytes 4..8 read back as seq and bytes
\* 10..10+N as the body.
C9_MakeCommandFrame ==
    (mkOut.err # "none" /\ ~OddDigits(mkIn))
        => /\ mkOut.err = "nil"
           /\ mkOut.message = ExpectedFrame(HexBody(mkIn), mkSeq)
           /\ Len(mkOut.message) = 11 + Len(HexBody(mkIn))
           /\ Uint32(SubSeq(mkOut.message, 5, 8)) = mkSeq
           /\ SubSeq(mkOut.message, 11, 10 + Len(HexBody(mkIn))) = HexBody(mkIn)

\* C9, reached: MakeCommand("06 04", 1234) gave 01 00 00 05 00 00 04 D2 81 01 06 04 FF
C9_Witness ==
    /\ mkIn = <<48, 54, 32, 48, 52>>
    /\ mkSeq = <<0, 1234>>
    /\ mkOut.message = <<1, 0, 0, 5, 0, 0, 4, 210, 129, 1, 6, 4, 255>>

\* C10: for an input with an odd number of hex digits MakeCommand returns an error
\* and no bytes, and the SendCommand that was given it has returned that error
\* without a write, without a retry or a sleep, and with stats as they were.
C10_OddInputFailsFast ==
    (mkOut.err # "none" /\ OddDigits(mkIn))
        => /\ mkOut = [message |-> <<>>, err |-> "EvenLength"]
           /\ result = Err("EvenLength")
           /\ Returned
           /\ sends = 0
           /\ count = 0
           /\ sleeps = <<>>
           /\ stats = stats0

\* C10, reached: SendCommand("06 4") on a session whose counters are not zero
C10_Witness ==
    /\ mkIn = <<48, 54, 32, 52>>
    /\ result = Err("EvenLength")
    /\ pc = "idle"
    /\ stats.timeouts > 0

\* b = a + 1, on sequence numbers kept as <<high half, low half>>
OneMore(a, b) ==
    \/ a[2] < 65535 /\ b = <<a[1], a[2] + 1>>
    \/ a[2] = 65535 /\ b = <<a[1] + 1, 0>>

InUint32(a) == a[1] \in 0..65535 /\ a[2] \in 0..65535

\* C11: incSeqNum stores and returns current + 1 below 2^32 - 1 and 0 at 2^32 - 1;
\* the stored value stays in [0, 2^32 - 1], successive returned values differ by
\* one except at the wrap, and 0 is returned by the wrap only
C11_IncSeqNumWraps ==
    [][calls' = calls + 1 =>
         /\ callSeq' = seqNum'
         /\ InUint32(seqNum')
         /\ IF seqNum = <<65535, 65535>>
            THEN seqNum' = <<0, 0>>
            ELSE OneMore(seqNum, seqNum')
         /\ seqNum' = <<0, 0>> => seqNum = <<65535, 65535>>
         /\ calls >= 1 /\ callSeq # <<65535, 65535>> => OneMore(callSeq, callSeq')]_vars

\* the counter wrapped and was incremented again
C11_Witness == calls = 2 /\ seqNum = <<0, 1>> /\ callSeq = <<0, 1>>

\* the reset response acknowledges: at least nine bytes, the ninth is 0x01
ResetAcked(o) == o.err = "nil" /\ o.n >= 9 /\ o.data[9] = 1

\* the socket-clear command of a new session on the wire:
\* 01 00 | 00 05 | 00 00 00 02 | 81 01 00 01 FF
SocketClearFrame == <<1, 0, 0, 5, 0, 0, 0, 2, 129, 1, 0, 1, 255>>

\* C12: NewCameraWithConfig resets, then sends the socket-clear command: every
\* command frame it writes is the socket-clear frame, the first one is written
\* after the reset frame and its acknowledgement, a failed reset ends the creation
\* with an error and no command frame written, and a camera is handed out only
\* when the socket-clear command succeeded; without a camera nothing more can run
C12_ResetThenSocketClear ==
    [][/\ pc # "dead"
       /\ creating =>
            /\ pc = "write" /\ sends' = sends + 1 =>
                 /\ lastSent' = SocketClearFrame
                 /\ sends = 0 => lastSent = resetCmd /\ ResetAcked(lastRead)
            /\ pc = "resetWrite" =>
                 /\ pc' \in {"resetRead", "dead"}
                 /\ pc' = "resetRead" => lastSent' = resetCmd
                 /\ pc' = "dead" => lastSent' \in {<<>>, resetCmd}
            /\ pc = "resetRead" /\ ~ResetAcked(lastRead') =>
                 /\ pc' = "dead"
                 /\ lastSent' = resetCmd
                 /\ sends' = 0
            /\ pc' = "dead" => ~creating' /\ result'.kind \notin {"none", "nil"}
            /\ pc' = "idle" =>
                 /\ ~creating'
                 /\ result' = Nil
                 /\ pc = "read"
                 /\ lastSent' = SocketClearFrame
            /\ creating' => pc' \in {"resetWrite", "resetRead", "write", "read"}]_vars

\* NewCameraWithConfig returned a camera: reset acknowledged, socket-clear completed
C12_Witness ==
    /\ pc = "idle"
    /\ calls = 0
    /\ result = Nil
    /\ lastSent = SocketClearFrame
    /\ seqNum = <<0, 2>>
    /\ lastRead.err = "nil"

\* C13: ResetSequenceNumber writes the reset frame once and reads once. When the
\* response has nine bytes or more and the ninth is 0x01 the sequence number becomes
\* 1 (inside NewCameraWithConfig the socket-clear command starts at once and takes
\* 2); on a timeout, a shorter response or another ninth byte it returns an error
\* with the sequence number and the stats as they were. No step goes back to the
\* write
C13_ResetOnceNoRetry ==
    [][/\ pc' = "resetWrite" => pc \in {"new", "idle"}
       /\ pc = "resetWrite" =>
            /\ seqNum' = seqNum /\ stats' = stats
            /\ IF lastWrite' = "ok"
               THEN pc' = "resetRead" /\ lastSent' = resetCmd
               ELSE Returned' /\ result'.kind \notin {"none", "nil"}
       /\ pc = "resetRead" =>
            IF ResetAcked(lastRead')
            THEN IF creating
                 THEN seqNum' = <<0, 2>> /\ mkSeq' = <<0, 2>> /\ mkIn' = SocketClear
                 ELSE /\ seqNum' = <<0, 1>>
                      /\ stats' = stats
                      /\ pc' = "idle"
                      /\ result' = Nil
            ELSE /\ Returned'
                 /\ result'.kind \notin {"none", "nil"}
                 /\ seqNum' = seqNum
                 /\ stats' = stats
                 /\ lastSent' = resetCmd]_vars

\* a caller's ResetSequenceNumber succeeded after a command (which had sequence
\* number 3), and the command that followed carries sequence number 2
C13_Witness ==
    /\ calls = 2
    /\ pc = "write"
    /\ sends = 0
    /\ lastSent = resetCmd
    /\ callSeq = <<0, 2>>
    /\ Uint32(SubSeq(message, 5, 8)) = <<0, 2>>

\* C14: a write or a read of SendCommand that fails with another error than the
\* deadline (the connection was closed, the deadline could not be set), and a
\* response of less than twelve bytes, end the call at once with an error: no
\* further send, missedResponses and timeouts as they were
C14_NonTimeoutNotRetried ==
    [][/\ pc = "write" /\ lastWrite' \in {"closed", "setDeadline"} =>
            /\ Returned'
            /\ result'.kind \notin {"none", "nil"}
            /\ stats' = stats
       /\ pc = "read" /\ (\/ lastRead'.err \in {"closed", "setDeadline"}
                          \/ lastRead'.err = "nil" /\ lastRead'.n < 12) =>
            /\ Returned'
            /\ result'.kind \notin {"none", "nil"}
            /\ stats' = stats
            /\ sends' = sends]_vars

\* the connection was closed while SendCommand waited for the response to its
\* second send
C14_Witness ==
    /\ Returned
    /\ sends = 2
    /\ writeTimeouts = 1
    /\ lastRead.err = "closed"
    /\ result.kind \notin {"none", "nil"}
    /\ stats.timeouts = stats0.timeouts + 1
    /\ stats.missedResponses = stats0.missedResponses

\* C15, its last clause: at every point of a SendCommand call stats.missedResponses
\* has grown by exactly the number of reads of that call that hit their deadline
\* (the clause on stats.timeouts and the write timeouts is the matter of C7: giving
\* up adds one more to stats.timeouts)
C15_ReadTimeoutsCounted ==
    stats.missedResponses - stats0.missedResponses = readTimeouts

\* C16: every write of one SendCommand call puts the same frame on the wire, with
\* the sequence number of the call in its header; nothing changes the session's
\* sequence number while the call runs, and the start of a call adds exactly one
\* to it, whatever the call then meets
C16_SameFrameOneIncrement ==
    [][/\ pc = "write" /\ sends' = sends + 1 =>
            /\ lastSent' = message
            /\ <<lastSent'[5] * 256 + lastSent'[6],
                 lastSent'[7] * 256 + lastSent'[8]>> = callSeq
            /\ sends >= 1 => lastSent' = lastSent
       /\ pc \in {"write", "read"} =>
            /\ seqNum' = seqNum
            /\ callSeq' = seqNum
            /\ message' = message
       /\ pc = "idle" /\ calls' = calls + 1 =>
            /\ OneMore(seqNum, seqNum')
            /\ callSeq' = seqNum']_vars

\* the first call of a caller (sequence number 3) has sent its frame three times
\* and has read a stale response; the session's sequence number is 3
C16_Witness ==
    /\ pc = "read"
    /\ calls = 1
    /\ sends = 3
    /\ writeTimeouts = 2
    /\ lastSent = message
    /\ IsStaleResponse(lastRead, callSeq)
    /\ seqNum = <<0, 3>>

\* C17: the k-th time.Sleep of a SendCommand call lasts min(5 * 2^(k-1), 50) ms
\* (5, 10, 20, 40, 50, 50, ...), the delay never exceeds 50 ms, and a call that
\* has not retried yet holds the delay of 5 ms whatever the calls before it did
C17_BackoffSchedule ==
    /\ \A k \in 1..Len(sleeps) : sleeps[k] = Min(5 * 2^(k - 1), 50)
    /\ backoff <= 50
    /\ pc \in {"write", "read"} => backoff = Min(5 * 2^Len(sleeps), 50)
    /\ pc \in {"write", "read"} /\ writeTimeouts + readTimeouts = 0 =>
         sleeps = <<>> /\ backoff = 5

\* the second call of a caller went through 5, 10, 20, 40, 50, 50 ms after a first
\* call that had reached the cap
C17_Witness ==
    /\ calls = 2
    /\ stats0.timeouts >= 5
    /\ sleeps = <<5, 10, 20, 40, 50, 50>>

\* C18: no step lowers stats.missedResponses or stats.timeouts; a step that changes
\* them is a step of SendCommand (its start, one of its writes or reads; inside
\* NewCameraWithConfig its start comes with the acknowledged reset); the steps of a
\* caller's ResetSequenceNumber leave them; Stats() returns the two counters and
\* leaves the sequence number, the stats and the configuration as they were
C18_StatsOnlyGrow ==
    [][/\ stats'.missedResponses >= stats.missedResponses
       /\ stats'.timeouts >= stats.timeouts
       /\ stats' # stats =>
            \/ pc = "idle" /\ calls' = calls + 1
            \/ pc \in {"write", "read"}
            \/ creating /\ pc = "resetRead" /\ ResetAcked(lastRead')
       /\ pc' = "resetWrite" => stats' = stats
       /\ pc \in {"resetWrite", "resetRead"} /\ ~creating => stats' = stats
       /\ statsOut' # NoStats /\ statsOut' # statsOut =>
            /\ statsOut' = <<"Missed Responses: ", stats.missedResponses,
                             ", Timeouts: ", stats.timeouts>>
            /\ UNCHANGED <<seqNum, stats, maxRetries, pc, result, lastSent>>]_vars

\* Stats() after a command that counted two timeouts and a ResetSequenceNumber
\* that followed it
C18_Witness ==
    /\ pc = "idle"
    /\ calls >= 1
    /\ lastSent = resetCmd
    /\ stats = [missedResponses |-> 0, timeouts |-> 2]
    /\ statsOut = <<"Missed Responses: ", 0, ", Timeouts: ", 2>>

\* C19: SendCommand returns nil only on reading a response whose sequence number
\* is the one of the call, and a response with a larger sequence number is passed
\* over: the call keeps waiting, as it does for a smaller one
C19_OnlyCurrentAccepted ==
    [][pc = "read" =>
         /\ result' = Nil => HeaderSeq(lastRead') = callSeq
         /\ lastRead'.err = "nil" /\ lastRead'.n >= 12
              /\ Less(callSeq, HeaderSeq(lastRead')) =>
                pc' = "read" /\ result' = NoResult]_vars

\* C20: a copy of the nine-byte reset response (01 11 00 01 | 00 00 00 01 | 01) read
\* while a command with sequence number 2 or more awaits its response is passed
\* over like a stale response: the call keeps waiting
C20_LateResetResponseSuppressed ==
    [][/\ pc = "read"
       /\ Less(<<0, 1>>, callSeq)
       /\ lastRead'.err = "nil"
       /\ lastRead'.data = <<1, 17, 0, 1, 0, 0, 0, 1, 1>>
       => pc' = "read" /\ result' = NoResult]_vars

\* C21: a SendCommand that returns MakeCommand's error (a payload that cannot be
\* encoded) leaves the session as it was: the sequence number and the stats after
\* the call are those before it
C21_EncodeFailureKeepsSeqNum ==
    [][pc = "idle" /\ calls' = calls + 1 /\ mkOut'.err \notin {"none", "nil"} =>
         /\ seqNum' = seqNum
         /\ stats' = stats]_vars
====
